---- MODULE Spec2Model ----
(***************************************************************************)
(* A model of the book recommendation agent (src/agent.py) and of its two  *)
(* entry points: the command-line loop of src/agent.py and the Streamlit   *)
(* page of src/app.py.                                                     *)
(*                                                                         *)
(* Python values are records [t |-> type, v |-> text]: a str carries its   *)
(* text, every other value carries what str() prints for it.  A turn of    *)
(* the conversation history is the 2-tuple <<role, content>> the code      *)
(* appends.                                                                *)
(***************************************************************************)
EXTENDS Integers, Sequences, FiniteSets, TLC

\* ------------------------------------------------------------------ bounds

\* chat calls made in one run of the command-line loop
MaxCalls == 12
\* chat calls made, over both browser sessions, in one run of the Streamlit app
MaxUiCalls == 2
\* chat calls of one run whose engine behaviour is not the ordinary answer
MaxOdd == 1
\* clear commands / Clear Chat clicks in one run
MaxClears == 1
\* exchanges already in the history when chat is exercised as a function
PrefillExchanges == 9
\* calls of chat made on top of them, one after the other
MaxApiCalls == 3
\* calls of chat made on top of them when their steps interleave
MaxStepCalls == 2

\* ------------------------------------------------------- program constants

\* src/agent.py:319  if len(chat_history) > 20
HistoryCap == 20
\* src/agent.py:320  chat_history[-20:]
KeepLast == 20

Sessions == {1, 2}

\* ------------------------------------------------------------ Python values

Str(s) == [t |-> "str", v |-> s]
PyNone == [t |-> "none", v |-> "None"]
PyInt(s) == [t |-> "int", v |-> s]

\* bool(x)
Truthy(x) ==
  CASE x.t = "str" -> x.v # ""
    [] x.t = "none" -> FALSE
    [] x.t = "int" -> x.v # "0"
    [] OTHER -> TRUE

\* isinstance(x, str)
IsStr(x) == x.t = "str"

\* str(x)
PyStr(x) == x.v

\* h[-n:]
LastN(h, n) == IF Len(h) <= n THEN h ELSE SubSeq(h, Len(h) - n + 1, Len(h))

\* ------------------------------------------------------------ message texts

MsgApology == "I apologize, but I couldn't generate a response. Please try rephrasing your request."
MsgNoSuitable == "I couldn't find suitable book recommendations. Could you provide more details about your preferences?"
MsgTrouble == "I'm having trouble with that request. Could you tell me more about what kind of books you're looking for?"
MsgNotSure == "I'm not sure how to help with that. Could you describe your reading preferences?"
MsgError == "I'm sorry, I encountered an error. Please try again with your book preferences."
MsgNoResponse == "No response generated"
\* the literal of lines 299-311, which interpolates nothing (its middle elided)
FallbackText == "Based on your preferences for fast-paced sci-fi novels, I recommend the following books: [...] are likely to enjoy."

\* What the user of session s types as the n-th chat call of the run: every
\* message is a text of its own, never empty (both entry points strip the
\* input and skip an empty one).
UserText(s, n) == "s" \o ToString(s) \o ":u" \o ToString(n)

\* The engine's ordinary answer to the n-th call.
AnswerText(n) == "a" \o ToString(n)

\* ------------------------------------------------------- engine behaviours

\* What agent_executor.invoke does in one call: it returns a response or it
\* throws.  A response is None, a dict (with or without the key 'output'),
\* an object with an attribute output, or any other object; repr is what
\* str(response) prints.
Returns(r) == [kind |-> "returns", resp |-> r, cause |-> ""]
Throws(c) == [kind |-> "throws", resp |-> [shape |-> "none", has |-> FALSE, out |-> PyNone, repr |-> "None"], cause |-> c]

RespNone == [shape |-> "none", has |-> FALSE, out |-> PyNone, repr |-> "None"]
RespDict(o) == [shape |-> "dict", has |-> TRUE, out |-> o, repr |-> "{'output': ...}"]
RespDictNoKey == [shape |-> "dict", has |-> FALSE, out |-> PyNone, repr |-> "{}"]
RespAttr(o, r) == [shape |-> "object", has |-> TRUE, out |-> o, repr |-> r]
RespOther(r) == [shape |-> "object", has |-> FALSE, out |-> PyNone, repr |-> r]

\* the text the executor returns when it stops at a ceiling
StoppedText == "Agent stopped due to iteration limit or time limit."

Causes == {"quota exceeded", "timed out"}

OrdinaryBehaviour(n) == Returns(RespDict(Str(AnswerText(n))))

OddBehaviours ==
  {Returns(RespNone), Returns(RespDictNoKey)}
    \cup {Returns(RespDict(o)) :
            o \in {Str(""), PyNone, PyInt("7"), PyInt("0"), Str(MsgNoResponse), Str(StoppedText)}}
    \cup {Returns(RespAttr(Str("from attribute"), "<Result>")),
          Returns(RespAttr(PyInt("7"), "<Result>")),
          Returns(RespAttr(Str(""), "<Result>")),
          Returns(RespAttr(PyNone, "<Result>")),
          Returns(RespOther("plain text")),
          Returns(RespOther(""))}
    \cup {Throws(c) : c \in Causes}

\* ----------------------------------------------------------------- chat

\* lines 262-269: one turn of the history as the engine's messages.  A human
\* turn is passed on whatever its content; an assistant turn only when its
\* content is a non-empty str; anything else is dropped.
FormatTurn(msg) ==
  IF Len(msg) = 2
    THEN IF msg[1] = "human"
           THEN <<[type |-> "human", content |-> msg[2]]>>
           ELSE IF msg[1] = "assistant" /\ Truthy(msg[2]) /\ IsStr(msg[2])
                  THEN <<[type |-> "ai", content |-> msg[2]]>>
                  ELSE <<>>
    ELSE <<>>

RECURSIVE FormatHistory(_)
FormatHistory(h) ==
  IF h = <<>> THEN <<>> ELSE FormatTurn(Head(h)) \o FormatHistory(Tail(h))

\* line 266: HumanMessage(content=...) validates its content and raises on a
\* value that is neither text nor a list.
FormatRaises(h) ==
  \E i \in 1..Len(h) :
    Len(h[i]) = 2 /\ h[i][1] = "human" /\ h[i][2].t \notin {"str", "list"}

\* lines 284-293: the output read from the response
RawOutput(r) ==
  IF r.shape = "none"
    THEN Str(MsgApology)
    ELSE IF r.shape = "dict"
           THEN LET o == IF r.has THEN r.out ELSE Str("")
                IN  IF ~Truthy(o) THEN Str(MsgNoSuitable) ELSE o
           ELSE IF r.has /\ r.out.t # "none"
                  THEN Str(PyStr(r.out))
                  ELSE Str(r.repr)

\* a check that lets a non-string output through
CheckedOutputNoTypeCheck(o) == IF ~Truthy(o) THEN Str(MsgTrouble) ELSE o

\* lines 295-296
CheckedOutput(o) == IF ~Truthy(o) \/ ~IsStr(o) THEN Str(MsgTrouble) ELSE o

\* a fallback that reports the cause
FallbackWithCause(user_input, cause) == Str("Error: " \o cause)

\* lines 298-311: the answer substituted when the engine throws
FallbackAnswer(user_input, cause) == Str(FallbackText)

\* lines 281-311
EngineOutput(user_input, beh) ==
  IF beh.kind = "throws"
    THEN FallbackAnswer(user_input, beh.cause)
    ELSE CheckedOutput(RawOutput(beh.resp))

\* a completion that keeps the fallback text out of the history
UpdateHistorySkipsFallback(h, user_input, output) ==
  IF Truthy(output) /\ output # Str(MsgNoResponse) /\ output # Str(FallbackText)
    THEN Append(Append(h, <<"human", Str(user_input)>>), <<"assistant", output>>)
    ELSE h

\* lines 314-316
UpdateHistory(h, user_input, output) ==
  IF Truthy(output) /\ output # Str(MsgNoResponse)
    THEN Append(Append(h, <<"human", Str(user_input)>>), <<"assistant", output>>)
    ELSE h

\* a truncation that keeps the oldest turns
TruncateKeepOldest(h) == IF Len(h) > HistoryCap THEN SubSeq(h, 1, KeepLast) ELSE h

\* a truncation that keeps one turn less
TruncateToNineteen(h) == IF Len(h) > HistoryCap THEN LastN(h, KeepLast - 1) ELSE h

\* a truncation that is never applied
TruncateNever(h) == h

\* lines 319-320
Truncate(h) == IF Len(h) > HistoryCap THEN LastN(h, KeepLast) ELSE h

\* line 322
ReturnValue(output) ==
  [kind |-> "return", val |-> IF Truthy(output) THEN output ELSE Str(MsgNotSure)]

\* lines 324-327
OuterHandler(h) == [hist |-> h, saw |-> <<>>, invoked |-> FALSE, inits |-> FALSE,
                    ret |-> [kind |-> "return", val |-> Str(MsgError)]]

\* The credentials the process environment must hold (lines 344, 351).
AllCreds == {"GROQ_API_KEY", "TAVILY_API_KEY"}

\* lines 157-237: create_agent() under the environment env.  ChatGroq (163) and
\* TavilySearchResults (170) refuse to be built without their key.
create_agent(env) ==
  IF AllCreds \subseteq env
    THEN [kind |-> "return", val |-> "executor"]
    ELSE [kind |-> "raise", val |-> "api key missing"]

\* lines 243-327: one call of chat(user_input, agent_executor) on the history h
\* under the environment env; agent_executor is "executor" or "None".  hist is
\* the history it leaves, saw the chat_history of input_data, inits whether it
\* called create_agent() itself (271-272), ret what the caller gets.
chat(h, user_input, agent_executor, env, beh) ==
  IF FormatRaises(h)
    THEN OuterHandler(h)
    ELSE IF agent_executor = "None" /\ create_agent(env).kind = "raise"
           THEN [OuterHandler(h) EXCEPT !.inits = TRUE]
           ELSE LET output == EngineOutput(user_input, beh)
                IN  [hist |-> Truncate(UpdateHistory(h, user_input, output)),
                     saw |-> FormatHistory(h),
                     invoked |-> TRUE,
                     inits |-> agent_executor = "None",
                     ret |-> ReturnValue(output)]

\* ---------------------------------------------------------------- state

VARIABLES
  mode,          \* which entry point runs: "cli" (agent.py __main__) or "ui" (app.py)
  chat_history,  \* agent.py's module-level chat_history
  messages,      \* app.py: st.session_state.messages of each browser session
  ncalls,        \* chat calls made so far
  nodd,          \* of these, the calls with an odd engine behaviour
  nclears,       \* clears made so far
  lastCaller,    \* the session of the latest chat call (0: none yet)
  engineSaw,     \* input_data["chat_history"] of the latest chat call
  engineDid,     \* what agent_executor.invoke did in the latest chat call
  ret,           \* what the latest chat call gave its caller
  clearMark,     \* per session: ncalls when it last cleared (-1: never)
  sinceClear,    \* per session: its chat calls since it last cleared (counted to 2)
  allTurns,      \* every turn appended since the history was last emptied
  lazyInits,     \* create_agent() calls made inside chat (agent.py 271-272)
  creds,         \* the credentials in the process environment
  cliState,      \* agent.py __main__: "startup", "loop" or "exited"
  agent_executor, \* per session: the executor the entry point holds ("None": none)
  agent_ready,   \* app.py: st.session_state.agent_ready of each session
  last_error,    \* app.py: st.session_state.last_error of each session
  pc,            \* per caller: where its chat call stands ("idle": no call)
  t_text,        \* per caller: user_input of its call
  t_exec,        \* per caller: agent_executor of its call
  t_saw,         \* per caller: formatted_history of its call
  t_out,         \* per caller: output of its call
  t_slice,       \* per caller: chat_history[-20:] as evaluated, not yet stored
  staleTurns,    \* the turns the history held at the latest clear made during a call
  toolCall,      \* the latest call of a Lookup Operation: tool, arguments, what the search did
  toolOut,       \* the query it sent and what it gave its caller
  loopState,     \* the orchestration run: Idle, Thinking, ToolCall, Done or Aborted
  iterations,    \* Thinking/ToolCall cycles completed in the run
  elapsed,       \* seconds since the run started, as read at the last step's end
  loopOut,       \* what agent_executor.invoke gives chat at the end of the run
  runs           \* orchestration runs started

toolVars == <<toolCall, toolOut>>

loopVars == <<loopState, iterations, elapsed, loopOut, runs>>

chatVars == <<mode, chat_history, messages, ncalls, nodd, nclears, lastCaller,
              engineSaw, engineDid, ret, clearMark, sinceClear, allTurns, lazyInits>>

startVars == <<creds, cliState, agent_executor, agent_ready, last_error>>

stepVars == <<pc, t_text, t_exec, t_saw, t_out, t_slice, staleTurns>>

\* src/agent.py 20-21, src/app.py 278-279: the history and every session's
\* messages start empty
NoCallYet ==
  /\ chat_history = <<>>
  /\ messages = [s \in Sessions |-> <<>>]
  /\ ncalls = 0
  /\ nodd = 0
  /\ nclears = 0
  /\ lastCaller = 0
  /\ engineSaw = <<>>
  /\ engineDid = Returns(RespNone)
  /\ ret = [kind |-> "none", val |-> PyNone]
  /\ clearMark = [s \in Sessions |-> -1]
  /\ sinceClear = [s \in Sessions |-> 0]
  /\ allTurns = <<>>
  /\ lazyInits = 0

ChatInit ==
  /\ mode \in {"cli", "ui"}
  /\ NoCallYet

\* No chat call is under way.
ThreadsIdle ==
  /\ pc = [s \in Sessions |-> "idle"]
  /\ t_text = [s \in Sessions |-> ""]
  /\ t_exec = [s \in Sessions |-> "None"]
  /\ t_saw = [s \in Sessions |-> <<>>]
  /\ t_out = [s \in Sessions |-> PyNone]
  /\ t_slice = [s \in Sessions |-> <<>>]
  /\ staleTurns = {}

\* A process that has just been started: nothing is initialized yet.
FreshInit ==
  /\ creds \in SUBSET AllCreds
  /\ cliState = "startup"
  /\ agent_executor = [s \in Sessions |-> "None"]
  /\ agent_ready = [s \in Sessions |-> FALSE]
  /\ last_error = [s \in Sessions |-> PyNone]

\* A process whose initialization went through: both credentials are there,
\* the command-line loop reads input, every browser session has loaded the page.
ReadyInit ==
  /\ creds = AllCreds
  /\ cliState = "loop"
  /\ agent_executor = [s \in Sessions |-> "executor"]
  /\ agent_ready = [s \in Sessions |-> TRUE]
  /\ last_error = [s \in Sessions |-> PyNone]

\* a start-up that goes on to the loop whatever it found
CliStartupGoesOn(env) == "loop"

\* src/agent.py 343-366: the credential checks and create_agent(), each ending
\* the process with sys.exit(1) on failure
CliAfterStartup(env) ==
  IF "GROQ_API_KEY" \notin env
    THEN "exited"
    ELSE IF "TAVILY_API_KEY" \notin env
           THEN "exited"
           ELSE IF create_agent(env).kind = "raise" THEN "exited" ELSE "loop"

\* src/agent.py 333-366: the command-line program starts
CliStartup ==
  /\ mode = "cli"
  /\ cliState = "startup"
  /\ cliState' = CliAfterStartup(creds)
  /\ agent_executor' = [agent_executor EXCEPT ![1] =
                          IF create_agent(creds).kind = "return" THEN "executor" ELSE @]
  /\ UNCHANGED <<creds, agent_ready, last_error>>
  /\ UNCHANGED <<chatVars, toolVars, loopVars, stepVars>>

\* src/app.py 255-269, 370-385: a script run of session s that finds
\* agent_ready false; on failure it records the error and st.stop() ends the
\* run before the input form is drawn
UiLoad(s) ==
  /\ mode = "ui"
  /\ ~agent_ready[s]
  /\ IF create_agent(creds).kind = "return"
       THEN /\ agent_executor' = [agent_executor EXCEPT ![s] = "executor"]
            /\ agent_ready' = [agent_ready EXCEPT ![s] = TRUE]
            /\ UNCHANGED last_error
       ELSE /\ last_error' = [last_error EXCEPT ![s] = Str("Traceback: " \o create_agent(creds).val)]
            /\ UNCHANGED <<agent_executor, agent_ready>>
  /\ UNCHANGED <<creds, cliState>>
  /\ UNCHANGED <<chatVars, toolVars, loopVars, stepVars>>

\* The engine behaviours the n-th call may meet.
Behaviours(n) ==
  {OrdinaryBehaviour(n)} \cup (IF nodd < MaxOdd THEN OddBehaviours ELSE {})

\* Caller s calls chat(text, executor) and the engine does beh.
CallWith(s, text, executor, beh) ==
  LET n == ncalls + 1
      r == chat(chat_history, text, executor, creds, beh)
      u == UpdateHistory(chat_history, text, EngineOutput(text, beh))
  IN  /\ chat_history' = r.hist
      /\ engineSaw' = r.saw
      /\ engineDid' = beh
      /\ ret' = r.ret
      /\ ncalls' = n
      /\ nodd' = IF beh \in OddBehaviours THEN nodd + 1 ELSE nodd
      /\ lastCaller' = s
      /\ sinceClear' = [sinceClear EXCEPT ![s] = IF @ < 2 THEN @ + 1 ELSE @]
      /\ allTurns' = IF r.invoked
                       THEN allTurns \o SubSeq(u, Len(chat_history) + 1, Len(u))
                       ELSE allTurns
      /\ lazyInits' = IF r.inits /\ lazyInits < 1 THEN lazyInits + 1 ELSE lazyInits

\* Session s calls chat with its next message and the executor it holds.
Call(s, beh) == CallWith(s, UserText(s, ncalls + 1), agent_executor[s], beh)

\* src/agent.py 402-408: an input line that is no command
CliChat ==
  /\ mode = "cli"
  /\ cliState = "loop"
  /\ ncalls < MaxCalls
  /\ \E beh \in Behaviours(ncalls + 1) : Call(1, beh)
  /\ UNCHANGED <<mode, messages, nclears, clearMark>>
  /\ UNCHANGED <<toolVars, loopVars, startVars, stepVars>>

\* src/agent.py 397-400: the command 'clear'
CliClear ==
  /\ mode = "cli"
  /\ cliState = "loop"
  /\ pc[1] = "idle"
  /\ nclears < MaxClears
  /\ chat_history' = <<>>
  /\ allTurns' = <<>>
  /\ nclears' = nclears + 1
  /\ clearMark' = [clearMark EXCEPT ![1] = ncalls]
  /\ sinceClear' = [sinceClear EXCEPT ![1] = 0]
  /\ UNCHANGED <<mode, messages, ncalls, nodd, lastCaller, engineSaw, engineDid, ret,
                 lazyInits>>
  /\ UNCHANGED <<toolVars, loopVars, startVars, stepVars>>

\* src/app.py 474-483: what the page shows for the call's result
UiResponse(r) ==
  IF r.kind = "raise"
    THEN "I encountered an error: " \o PyStr(r.val) \o ". Please try again with different preferences."
    ELSE IF r.val.t = "none"
           THEN "I couldn't generate recommendations. Please try rephrasing your preferences."
           ELSE PyStr(r.val)

\* src/app.py 457-513: the form is submitted in session s
UiSubmit(s) ==
  /\ mode = "ui"
  /\ agent_ready[s]
  /\ ncalls < MaxUiCalls
  /\ \E beh \in Behaviours(ncalls + 1) : Call(s, beh)
  /\ messages' = [messages EXCEPT ![s] =
                    @ \o <<[role |-> "user", content |-> UserText(s, ncalls + 1)],
                           [role |-> "assistant", content |-> UiResponse(ret')]>>]
  /\ UNCHANGED <<mode, nclears, clearMark>>
  /\ UNCHANGED <<toolVars, loopVars, startVars, stepVars>>

\* src/app.py 330-333: the button Clear Chat of session s
UiClear(s) ==
  /\ mode = "ui"
  /\ pc[s] = "idle"
  /\ nclears < MaxClears
  /\ messages' = [messages EXCEPT ![s] = <<>>]
  /\ nclears' = nclears + 1
  /\ clearMark' = [clearMark EXCEPT ![s] = ncalls]
  /\ sinceClear' = [sinceClear EXCEPT ![s] = 0]
  /\ staleTurns' = IF \E t \in Sessions : pc[t] # "idle"
                     THEN {chat_history[i] : i \in 1..Len(chat_history)}
                     ELSE staleTurns
  /\ UNCHANGED <<mode, chat_history, ncalls, nodd, lastCaller, engineSaw, engineDid,
                 ret, allTurns, lazyInits>>
  /\ UNCHANGED <<pc, t_text, t_exec, t_saw, t_out, t_slice>>
  /\ UNCHANGED <<toolVars, loopVars, startVars>>

\* ------------------------------------------- chat called as a function

\* The history after k ordinary exchanges of session 1.
RECURSIVE Prefill(_)
Prefill(k) ==
  IF k = 0
    THEN <<>>
    ELSE Prefill(k - 1) \o <<<<"human", Str(UserText(1, k))>>,
                              <<"assistant", Str(AnswerText(k))>>>>

\* What the page of session 1 shows after these k exchanges.
RECURSIVE PrefillMessages(_)
PrefillMessages(k) ==
  IF k = 0
    THEN <<>>
    ELSE PrefillMessages(k - 1) \o <<[role |-> "user", content |-> UserText(1, k)],
                                      [role |-> "assistant", content |-> AnswerText(k)]>>

\* The history and the counters after PrefillExchanges ordinary calls.
Prefilled ==
  /\ chat_history = Prefill(PrefillExchanges)
  /\ allTurns = Prefill(PrefillExchanges)
  /\ ncalls = PrefillExchanges
  /\ lastCaller = 1
  /\ engineSaw = FormatHistory(Prefill(PrefillExchanges - 1))
  /\ engineDid = OrdinaryBehaviour(PrefillExchanges)
  /\ ret = [kind |-> "return", val |-> Str(AnswerText(PrefillExchanges))]
  /\ messages = [s \in Sessions |->
                   IF mode = "ui" /\ s = 1 THEN PrefillMessages(PrefillExchanges) ELSE <<>>]
  /\ nodd = 0
  /\ nclears = 0
  /\ clearMark = [s \in Sessions |-> -1]
  /\ sinceClear = [s \in Sessions |-> IF s = 1 THEN 2 ELSE 0]
  /\ lazyInits = 0

\* The process after PrefillExchanges ordinary calls; from here any code that
\* has imported agent calls chat(user_input, agent_executor) itself.
ApiInit ==
  /\ mode = "api"
  /\ Prefilled
  /\ creds \in {AllCreds, {}}
  /\ cliState = "loop"
  /\ agent_executor = [s \in Sessions |-> "executor"]
  /\ agent_ready = [s \in Sessions |-> FALSE]
  /\ last_error = [s \in Sessions |-> PyNone]

\* line 243: user_input is any str, the empty one included
ApiTexts(s, n) == {"", UserText(s, n)}

\* line 243: agent_executor is an executor or left to its default, None
ApiExecutors == {"executor", "None"}

\* what the engine may do in such a call: answer, fail, or answer with the
\* text that line 314 compares with
ApiBehaviours(n) ==
  {OrdinaryBehaviour(n), Throws("timed out"), Returns(RespDict(Str(MsgNoResponse)))}

\* src/agent.py 243-327: one call of chat, from its first line to its return
ApiCall ==
  /\ mode = "api"
  /\ ncalls < PrefillExchanges + MaxApiCalls
  /\ \E text \in ApiTexts(1, ncalls + 1), executor \in ApiExecutors,
        beh \in ApiBehaviours(ncalls + 1) :
       CallWith(1, text, executor, beh)
  /\ UNCHANGED <<mode, messages, nclears, clearMark>>
  /\ UNCHANGED <<toolVars, loopVars, startVars, stepVars>>

\* --------------------------------------------------- chat, step by step

\* Who can be inside chat: the one thread of the command-line loop, or one
\* script thread for each browser session (or thread of an importing program).
Callers == IF mode = "cli" THEN {1} ELSE Sessions

\* The call's arguments, as the entry point passes them.
StepTexts(s, n) == {UserText(s, n)}

StepExecutors(s) == IF mode = "api" THEN ApiExecutors ELSE {agent_executor[s]}

\* What the engine may do with the message text: answer it, or answer with
\* the text that line 314 compares with.
StepBehaviours(text) ==
  {Returns(RespDict(Str("re:" \o text))), Returns(RespDict(Str(MsgNoResponse)))}

\* a formatting that takes the turns out of the history
HistoryDrainedByFormatting(h) == <<>>

\* lines 260-269: the loop fills the new list formatted_history and leaves
\* chat_history as it is
HistoryAfterFormatting(h) == h

\* line 314
ShouldRecord(output) == Truthy(output) /\ output # Str(MsgNoResponse)

\* lines 254-278 (and app.py 461-470): the call begins; it formats the history
\* and builds the executor when it was given none
StepStart(s) ==
  /\ s \in Callers
  /\ pc[s] = "idle"
  /\ IF mode = "cli" THEN cliState = "loop" ELSE (mode = "ui" => agent_ready[s])
  /\ ncalls < PrefillExchanges + MaxStepCalls
  /\ \E text \in StepTexts(s, ncalls + 1), executor \in StepExecutors(s) :
       LET initFails == executor = "None" /\ create_agent(creds).kind = "raise"
           fails == FormatRaises(chat_history) \/ initFails
       IN  /\ t_text' = [t_text EXCEPT ![s] = text]
           /\ t_exec' = [t_exec EXCEPT ![s] = executor]
           /\ t_saw' = [t_saw EXCEPT ![s] =
                          IF FormatRaises(chat_history) THEN <<>> ELSE FormatHistory(chat_history)]
           /\ pc' = [pc EXCEPT ![s] = IF fails THEN "failed" ELSE "invoke"]
           /\ lazyInits' = IF executor = "None" /\ ~FormatRaises(chat_history) /\ lazyInits < 1
                             THEN lazyInits + 1 ELSE lazyInits
           /\ messages' = IF mode = "ui"
                            THEN [messages EXCEPT ![s] =
                                    @ \o <<[role |-> "user", content |-> text],
                                           [role |-> "assistant", content |-> "Searching..."]>>]
                            ELSE messages
  /\ chat_history' = HistoryAfterFormatting(chat_history)
  /\ ncalls' = ncalls + 1
  /\ sinceClear' = [sinceClear EXCEPT ![s] = IF @ < 2 THEN @ + 1 ELSE @]
  /\ UNCHANGED <<mode, nodd, nclears, lastCaller, engineSaw, engineDid, ret, clearMark,
                 allTurns, t_out, t_slice, staleTurns>>
  /\ UNCHANGED <<toolVars, loopVars, startVars>>

\* lines 281-311: the engine and its tools run, and the output is settled
StepInvoke(s) ==
  /\ pc[s] = "invoke"
  /\ \E beh \in StepBehaviours(t_text[s]) :
       t_out' = [t_out EXCEPT ![s] = EngineOutput(t_text[s], beh)]
  /\ pc' = [pc EXCEPT ![s] = "append_human"]
  /\ UNCHANGED <<mode, chat_history, messages, ncalls, nodd, nclears, ret, clearMark,
                 lastCaller, engineSaw, engineDid,
                 sinceClear, allTurns, lazyInits, t_text, t_exec, t_saw, t_slice, staleTurns>>
  /\ UNCHANGED <<toolVars, loopVars, startVars>>

\* lines 314-315: the test of the output and the first append
StepAppendHuman(s) ==
  /\ pc[s] = "append_human"
  /\ IF ShouldRecord(t_out[s])
       THEN /\ chat_history' = Append(chat_history, <<"human", Str(t_text[s])>>)
            /\ allTurns' = Append(allTurns, <<"human", Str(t_text[s])>>)
            /\ pc' = [pc EXCEPT ![s] = "append_assistant"]
       ELSE /\ pc' = [pc EXCEPT ![s] = "check"]
            /\ UNCHANGED <<chat_history, allTurns>>
  /\ UNCHANGED <<mode, messages, ncalls, nodd, nclears, lastCaller, engineSaw, engineDid,
                 ret, clearMark, sinceClear, lazyInits, t_text, t_exec, t_saw, t_out,
                 t_slice, staleTurns>>
  /\ UNCHANGED <<toolVars, loopVars, startVars>>

\* line 316: the second append
StepAppendAssistant(s) ==
  /\ pc[s] = "append_assistant"
  /\ chat_history' = Append(chat_history, <<"assistant", t_out[s]>>)
  /\ allTurns' = Append(allTurns, <<"assistant", t_out[s]>>)
  /\ pc' = [pc EXCEPT ![s] = "check"]
  /\ UNCHANGED <<mode, messages, ncalls, nodd, nclears, lastCaller, engineSaw, engineDid,
                 ret, clearMark, sinceClear, lazyInits, t_text, t_exec, t_saw, t_out,
                 t_slice, staleTurns>>
  /\ UNCHANGED <<toolVars, loopVars, startVars>>

\* line 319: len(chat_history) > 20
StepCheck(s) ==
  /\ pc[s] = "check"
  /\ pc' = [pc EXCEPT ![s] = IF Len(chat_history) > HistoryCap THEN "slice" ELSE "return"]
  /\ UNCHANGED <<chatVars, t_text, t_exec, t_saw, t_out, t_slice, staleTurns>>
  /\ UNCHANGED <<toolVars, loopVars, startVars>>

\* line 320, right-hand side: chat_history[-20:] builds a new list
StepSlice(s) ==
  /\ pc[s] = "slice"
  /\ t_slice' = [t_slice EXCEPT ![s] = LastN(chat_history, KeepLast)]
  /\ pc' = [pc EXCEPT ![s] = "store"]
  /\ UNCHANGED <<chatVars, t_text, t_exec, t_saw, t_out, staleTurns>>
  /\ UNCHANGED <<toolVars, loopVars, startVars>>

\* line 320, the assignment: the global name is bound to the new list
StepStore(s) ==
  /\ pc[s] = "store"
  /\ chat_history' = t_slice[s]
  /\ t_slice' = [t_slice EXCEPT ![s] = <<>>]
  /\ pc' = [pc EXCEPT ![s] = "return"]
  /\ UNCHANGED <<mode, messages, ncalls, nodd, nclears, lastCaller, engineSaw, engineDid,
                 ret, clearMark, sinceClear, allTurns, lazyInits, t_text, t_exec, t_saw,
                 t_out, staleTurns>>
  /\ UNCHANGED <<toolVars, loopVars, startVars>>

\* lines 322 and 324-327 (and app.py 474-496): the call returns, from its last
\* line or from the outer handler, and the page shows the result
StepReturn(s) ==
  /\ pc[s] \in {"return", "failed"}
  /\ ret' = IF pc[s] = "failed"
               THEN [kind |-> "return", val |-> Str(MsgError)]
               ELSE ReturnValue(t_out[s])
  /\ messages' = IF mode = "ui"
                   THEN [messages EXCEPT ![s] =
                           SubSeq(@, 1, Len(@) - 1)
                             \o <<[role |-> "assistant", content |-> UiResponse(ret')]>>]
                   ELSE messages
  /\ pc' = [pc EXCEPT ![s] = "idle"]
  /\ t_text' = [t_text EXCEPT ![s] = ""]
  /\ t_exec' = [t_exec EXCEPT ![s] = "None"]
  /\ t_saw' = [t_saw EXCEPT ![s] = <<>>]
  /\ t_out' = [t_out EXCEPT ![s] = PyNone]
  /\ UNCHANGED <<mode, chat_history, ncalls, nodd, nclears, lastCaller, engineSaw,
                 engineDid, clearMark, sinceClear, allTurns, lazyInits, t_slice, staleTurns>>
  /\ UNCHANGED <<toolVars, loopVars, startVars>>

\* One step of one call.
ChatStep(s) ==
  \/ StepStart(s)
  \/ StepInvoke(s)
  \/ StepAppendHuman(s)
  \/ StepAppendAssistant(s)
  \/ StepCheck(s)
  \/ StepSlice(s)
  \/ StepStore(s)
  \/ StepReturn(s)


\* ------------------------------------------------------- Lookup Operations

\* items in one result list of the search capability
MaxItems == 2

ToolNames == {"search_books_by_genre", "search_similar_books", "search_books_by_mood",
              "get_book_details", "search_where_to_buy"}

\* the value of genre, book_title or mood
Topics == {"sci-fi", ""}

\* the value of author
Authors == {"", "Andy Weir"}

\* One item of a result list: a dict, with or without the keys content and
\* url, or something that is no dict.
ItemKinds ==
  {[t |-> "dict", keys |-> {"content", "url"}, content |-> "A review.", url |-> "http://x"],
   [t |-> "dict", keys |-> {}, content |-> "", url |-> ""],
   [t |-> "str", keys |-> {}, content |-> "", url |-> ""]}

ResultLists == UNION {[1..n -> ItemKinds] : n \in 0..MaxItems}

\* What the search capability does in one call: TavilySearchResults(...)
\* throws, its invoke throws, or invoke returns a list or some other value
\* (text: what str() prints for it).
Backends ==
  {[kind |-> "list", items |-> l, text |-> "", cause |-> ""] : l \in ResultLists}
    \cup {[kind |-> "value", items |-> <<>>, text |-> x, cause |-> ""] :
            x \in {"HTTPError('502 Server Error')", "None", ""}}
    \cup {[kind |-> k, items |-> <<>>, text |-> "", cause |-> c] :
            k \in {"throws", "ctor_throws"}, c \in {"connection refused", ""}}

\* result.get(key, '')
Get(item, key) == IF key \in item.keys THEN item[key] ELSE ""

\* lines 46, 70, 94, 147
NumberedItem(i, item) ==
  ToString(i) \o ". " \o Get(item, "content") \o "\nSource: " \o Get(item, "url") \o "\n\n"

\* line 123
PlainItem(i, item) ==
  Get(item, "content") \o "\nSource: " \o Get(item, "url") \o "\n\n"

\* the for loop of lines 43-46 (120-123 when not numbered), from item i on
RECURSIVE FormatResults(_, _, _, _)
FormatResults(formatted, results, i, numbered) ==
  IF i > Len(results)
    THEN formatted
    ELSE FormatResults(formatted \o (IF numbered THEN NumberedItem(i, results[i])
                                                 ELSE PlainItem(i, results[i])),
                       results, i + 1, numbered)

\* a handler that lets the exception through
CaughtReraises(context, cause) == [kind |-> "raise", val |-> Str(cause)]

\* lines 49-50, 73-74, 97-98, 126-127, 150-151: except Exception as e
Caught(context, cause) == [kind |-> "return", val |-> Str(context \o ": " \o cause)]

\* The try block the five operations share (lines 35-48 and its four copies):
\* query is sent only when TavilySearchResults(...) was built.
Lookup(context, header, numbered, query, backend) ==
  IF backend.kind = "ctor_throws"
    THEN [query |-> "", res |-> Caught(context, backend.cause)]
    ELSE IF backend.kind = "throws"
           THEN [query |-> query, res |-> Caught(context, backend.cause)]
           ELSE IF backend.kind = "list"
                  THEN IF \E i \in 1..Len(backend.items) : backend.items[i].t # "dict"
                         THEN [query |-> query,
                               res |-> Caught(context, "'str' object has no attribute 'get'")]
                         ELSE [query |-> query,
                               res |-> [kind |-> "return",
                                        val |-> Str(FormatResults(header, backend.items, 1, numbered))]]
                  ELSE [query |-> query, res |-> [kind |-> "return", val |-> Str(backend.text)]]

\* lines 27-50
search_books_by_genre(genre, backend) ==
  Lookup("Error searching books by genre",
         "Top books in " \o genre \o ":\n\n", TRUE,
         "best " \o genre \o " books 2024 2023 highly rated recommendations", backend)

\* lines 52-74
search_similar_books(book_title, backend) ==
  Lookup("Error searching similar books",
         "Books similar to '" \o book_title \o "':\n\n", TRUE,
         "books similar to " \o book_title \o " recommendations if you liked", backend)

\* lines 76-98
search_books_by_mood(mood, backend) ==
  Lookup("Error searching books by mood",
         "Books for " \o mood \o " mood:\n\n", TRUE,
         mood \o " books recommendations best rated", backend)

\* lines 100-127
get_book_details(book_title, author, backend) ==
  Lookup("Error getting book details",
         "Details for '" \o book_title \o "':\n\n", FALSE,
         book_title \o (IF author # "" THEN " by " \o author ELSE "")
           \o " book synopsis author information reading time pages", backend)

\* lines 129-151
search_where_to_buy(book_title, backend) ==
  Lookup("Error searching purchase options",
         "Where to get '" \o book_title \o "':\n\n", TRUE,
         "where to buy " \o book_title \o " book Amazon Goodreads library online", backend)

\* the tool the registry (lines 178-185) holds under this name
InvokeTool(tool, topic, author, backend) ==
  CASE tool = "search_books_by_genre" -> search_books_by_genre(topic, backend)
    [] tool = "search_similar_books" -> search_similar_books(topic, backend)
    [] tool = "search_books_by_mood" -> search_books_by_mood(topic, backend)
    [] tool = "get_book_details" -> get_book_details(topic, author, backend)
    [] tool = "search_where_to_buy" -> search_where_to_buy(topic, backend)

NoBackend == [kind |-> "none", items |-> <<>>, text |-> "", cause |-> ""]

ToolInit ==
  /\ toolCall = [tool |-> "", topic |-> "", author |-> "", backend |-> NoBackend]
  /\ toolOut = [query |-> "", res |-> [kind |-> "none", val |-> PyNone]]

\* The authors a call of the tool may be given: only get_book_details has one.
AuthorsOf(tool) == IF tool = "get_book_details" THEN Authors ELSE {""}

\* A Lookup Operation is called and the search capability does backend.
ToolRuns(tool, topic, author, backend) ==
  /\ toolCall' = [tool |-> tool, topic |-> topic, author |-> author, backend |-> backend]
  /\ toolOut' = InvokeTool(tool, topic, author, backend)

\* One call of one Lookup Operation, on any input.
RunTool ==
  /\ \E tool \in ToolNames, topic \in Topics, backend \in Backends :
       \E author \in AuthorsOf(tool) : ToolRuns(tool, topic, author, backend)
  /\ UNCHANGED <<chatVars, loopVars, startVars, stepVars>>

\* ------------------------------------------------------ Orchestration Loop

\* the executor's default when max_iterations is left out
MaxIterationsDefault == 10 + 5

\* src/agent.py:233  max_iterations=10
MaxIterations == 10
\* src/agent.py:234  max_execution_time=120
MaxExecutionTime == 120
\* src/agent.py:165  timeout=60
LlmTimeout == 60
\* orchestration runs in one run of the program
MaxRuns == 1

\* How long one engine call or one tool call may take: no time, the engine's
\* own timeout, or (a hanging search) longer than the whole run's ceiling.
Durations == {0, LlmTimeout, 2 * MaxExecutionTime}

\* What the search capability does within a run: it fails, or it returns an
\* empty list or an empty value.
LoopBackends == {b \in Backends : b.cause = "" /\ b.text = "" /\ b.items = <<>>}

\* The ceilings, read between two steps.
ShouldContinue(i, t) == i < MaxIterations /\ t < MaxExecutionTime

\* a cycle counter that never advances
NextIterationStuck(i) == i

\* The cycle counter after one more Thinking/ToolCall cycle.
NextIteration(i) == i + 1

LoopInit ==
  /\ loopState = "Idle"
  /\ iterations = 0
  /\ elapsed = 0
  /\ loopOut = Returns(RespNone)
  /\ runs = 0

\* src/agent.py 282: chat hands the input to agent_executor.invoke
RunStart ==
  /\ loopState = "Idle" \/ (loopState \in {"Done", "Aborted"} /\ ncalls = runs)
  /\ runs < MaxRuns
  /\ loopState' = "Thinking"
  /\ iterations' = 0
  /\ elapsed' = 0
  /\ runs' = runs + 1
  /\ UNCHANGED <<loopOut, chatVars, toolVars, startVars, stepVars>>

\* Thinking: the engine emits a Tool Invocation Request.
ThinkRequestsTool ==
  /\ loopState = "Thinking"
  /\ ShouldContinue(iterations, elapsed)
  /\ \E tool \in ToolNames, topic \in Topics, d \in Durations :
       \E author \in AuthorsOf(tool) :
         /\ toolCall' = [tool |-> tool, topic |-> topic, author |-> author,
                         backend |-> NoBackend]
         /\ elapsed' = elapsed + d
  /\ loopState' = "ToolCall"
  /\ UNCHANGED <<toolOut, iterations, loopOut, runs, chatVars, startVars, stepVars>>

\* Thinking: the engine emits its final answer.
ThinkAnswers ==
  /\ loopState = "Thinking"
  /\ ShouldContinue(iterations, elapsed)
  /\ \E d \in Durations : elapsed' = elapsed + d
  /\ loopState' = "Done"
  /\ loopOut' = OrdinaryBehaviour(runs)
  /\ UNCHANGED <<iterations, runs, chatVars, toolVars, startVars, stepVars>>

\* Thinking: the engine call fails; invoke throws and chat's handler of lines
\* 298-311 supplies the final answer.
ThinkFails ==
  /\ loopState = "Thinking"
  /\ ShouldContinue(iterations, elapsed)
  /\ \E d \in Durations : elapsed' = elapsed + d
  /\ loopState' = "Done"
  /\ \E c \in Causes : loopOut' = Throws(c)
  /\ UNCHANGED <<iterations, runs, chatVars, toolVars, startVars, stepVars>>

\* ToolCall: the requested Lookup Operation runs to its end, whatever the
\* clock says, and control returns to Thinking.
ToolStep ==
  /\ loopState = "ToolCall"
  /\ \E backend \in LoopBackends :
       ToolRuns(toolCall.tool, toolCall.topic, toolCall.author, backend)
  /\ \E d \in Durations : elapsed' = elapsed + d
  /\ iterations' = NextIteration(iterations)
  /\ loopState' = "Thinking"
  /\ UNCHANGED <<loopOut, runs, chatVars, startVars, stepVars>>

\* Aborted: a ceiling is reached; the run ends with the executor's stop text.
Abort ==
  /\ loopState = "Thinking"
  /\ ~ShouldContinue(iterations, elapsed)
  /\ loopState' = "Aborted"
  /\ loopOut' = Returns(RespDict(Str(StoppedText)))
  /\ UNCHANGED <<iterations, elapsed, runs, chatVars, toolVars, startVars, stepVars>>

\* src/agent.py 282-327: invoke is over and chat finishes the call
RunEnd ==
  /\ loopState \in {"Done", "Aborted"}
  /\ ncalls < runs
  /\ Call(1, loopOut)
  /\ UNCHANGED <<mode, messages, nclears, clearMark, loopVars, toolVars, startVars, stepVars>>

\* ------------------------------------------------------- specifications

vars == <<chatVars, toolVars, loopVars, startVars, stepVars>>

Init == ChatInit /\ ReadyInit /\ ToolInit /\ LoopInit /\ ThreadsIdle

\* The two entry points, the engine seen as one step of chat.
Next ==
  \/ CliChat
  \/ CliClear
  \/ \E s \in Sessions : UiSubmit(s)
  \/ \E s \in Sessions : UiClear(s)

Spec == Init /\ [][Next]_vars

\* calls accepted in one run that begins with the start-up of the process
MaxStartCalls == 2

StartInit == ChatInit /\ FreshInit /\ ToolInit /\ LoopInit /\ ThreadsIdle

Turns == ncalls < MaxStartCalls /\ Next

\* A process from its start: initialization, then the turns it accepts.
StartNext ==
  \/ CliStartup
  \/ \E s \in Sessions : UiLoad(s)
  \/ Turns

StartSpec == StartInit /\ [][StartNext]_vars

\* chat exercised as a function, call after call.
ApiStart == ApiInit /\ ToolInit /\ LoopInit /\ ThreadsIdle

ApiSpec == ApiStart /\ [][ApiCall]_vars

\* The process after PrefillExchanges ordinary calls, under either entry point
\* or an importing program.
StepInit ==
  /\ (ApiInit /\ creds = {}) \/ (mode \in {"cli", "ui"} /\ Prefilled /\ ReadyInit)
  /\ ToolInit
  /\ LoopInit
  /\ ThreadsIdle

\* The calls of chat step by step, the steps of different callers interleaved.
StepNext ==
  \/ \E s \in Sessions : ChatStep(s)
  \/ CliClear
  \/ \E s \in Sessions : UiClear(s)

StepSpec == StepInit /\ [][StepNext]_vars

\* The Lookup Operations alone, on every input.
ToolSpec == Init /\ [][RunTool]_vars

\* One conversation of the command-line loop, the engine's run step by step.
LoopStep ==
  \/ ThinkRequestsTool
  \/ ThinkAnswers
  \/ ThinkFails
  \/ ToolStep
  \/ Abort

LoopNext ==
  \/ RunStart
  \/ LoopStep
  \/ RunEnd

CliInit == Init /\ mode = "cli"

LoopSpec == CliInit /\ [][LoopNext]_vars

\* A run that has started goes on: every engine call and every tool call
\* returns or fails, and chat then finishes.
FairLoopSpec == LoopSpec /\ WF_vars(LoopStep) /\ WF_vars(RunEnd)

\* ---------------------------------------------------------------- claims

IsNonEmptyString(x) == IsStr(x) /\ x.v # ""

\* C1: whatever the user typed, whatever the history holds and whatever the
\* engine did (returned None, a dict with or without 'output', another object,
\* or threw), chat gave its caller a non-empty string and raised nothing.
C1_ChatReturnsNonEmptyString ==
  lastCaller # 0 => ret.kind = "return" /\ IsNonEmptyString(ret.val)

\* the engine returned a dict whose output is no string, and chat has returned
C1_Witness ==
  /\ lastCaller # 0
  /\ engineDid = Returns(RespDict(PyInt("7")))
  /\ ret.val = Str(MsgTrouble)

\* C2: after any sequence of chat calls and clears the history holds at most
\* 20 turns.
C2_HistoryAtMostTwenty == Len(chat_history) <= 20

\* more than 20 turns were appended and the history holds 20
C2_Witness == Len(allTurns) > 20 /\ Len(chat_history) = 20

\* C3: a chat call leaves the history equal to the 20 most recent turns, in
\* their order, of the history it found followed by the turns it appended; and
\* the call that follows 11 consecutive completed exchanges from an empty
\* history gives the engine the 2nd to 11th exchanges in order and no turn of
\* the 1st.
C3_KeepsTwentyMostRecent ==
  [][ncalls' = ncalls + 1 =>
       LET appended == SubSeq(allTurns', Len(allTurns) + 1, Len(allTurns'))
           all == chat_history \o appended
       IN  /\ chat_history' = IF Len(all) > 20 THEN SubSeq(all, Len(all) - 19, Len(all)) ELSE all
           /\ (Len(allTurns) = 22 /\ Len(chat_history) = 20) =>
                /\ Len(engineSaw') = 20
                /\ \A i \in 1..20 :
                     /\ engineSaw'[i].content = allTurns[i + 2][2]
                     /\ engineSaw'[i].type = (IF allTurns[i + 2][1] = "human" THEN "human" ELSE "ai")
                /\ \A i \in 1..20 : engineSaw'[i].content # allTurns[1][2]
     ]_vars

\* the 12th call of 12 consecutive completed exchanges has been made
C3_Witness ==
  /\ Len(allTurns) = 24
  /\ Len(engineSaw) = 20
  /\ chat_history = SubSeq(allTurns, 5, 24)

\* C4: each of the five Lookup Operations gives its caller a string, whatever
\* its input and whatever the search capability did (returned a list of dicts,
\* a list with items that are no dicts, a value that is no list, or threw); it
\* raises nothing.
C4_LookupReturnsString ==
  toolCall.tool # "" => toolOut.res.kind = "return" /\ IsStr(toolOut.res.val)

\* a Lookup Operation was given a list holding an item that is no dict
C4_Witness ==
  /\ toolCall.tool \in ToolNames
  /\ toolCall.backend.kind = "list"
  /\ \E i \in 1..Len(toolCall.backend.items) : toolCall.backend.items[i].t # "dict"
  /\ toolOut.res.kind = "return"

\* the search failed for the Lookup Operation: it threw, its result could not
\* be read, or its result set was empty
LookupFailed(b) ==
  \/ b.kind \in {"throws", "ctor_throws"}
  \/ b.kind = "list" /\ \E i \in 1..Len(b.items) : b.items[i].t # "dict"
  \/ b.kind = "list" /\ b.items = <<>>

\* the context each operation names in its error text
ErrorContext(tool) ==
  CASE tool = "search_books_by_genre" -> "Error searching books by genre"
    [] tool = "search_similar_books" -> "Error searching similar books"
    [] tool = "search_books_by_mood" -> "Error searching books by mood"
    [] tool = "get_book_details" -> "Error getting book details"
    [] tool = "search_where_to_buy" -> "Error searching purchase options"

BeginsWith(text, prefix) ==
  Len(text) >= Len(prefix) /\ SubSeq(text, 1, Len(prefix)) = prefix

\* C5: any failure of a Lookup Operation (the search throws, the result cannot
\* be read, the result set is empty) gives a text that begins with "Error"
\* and the operation's own context.
C5_FailureTextBeginsWithError ==
  (toolCall.tool \in ToolNames /\ LookupFailed(toolCall.backend)) =>
    /\ toolOut.res.kind = "return"
    /\ BeginsWith(toolOut.res.val.v, "Error")
    /\ BeginsWith(toolOut.res.val.v, ErrorContext(toolCall.tool) \o ": ")

\* C6: whenever agent_executor.invoke throws, chat returns the same non-empty
\* fallback answer, whatever the user input, the history and the cause.
C6_FallbackIsTheSameText ==
  (lastCaller # 0 /\ engineDid.kind = "throws") =>
    /\ ret = [kind |-> "return", val |-> Str(FallbackText)]
    /\ FallbackText # ""

\* the engine threw in a call made on a history that is not empty
C6_Witness ==
  /\ lastCaller # 0
  /\ engineDid.kind = "throws"
  /\ engineSaw # <<>>
  /\ ret.kind = "return"

\* the texts of the turns made before session s cleared
TextsBeforeClear(s) ==
  {Str(UserText(t, k)) : t \in Sessions, k \in 1..clearMark[s]}
    \cup {Str(AnswerText(k)) : k \in 1..clearMark[s]}

\* C7: the first chat call a session makes after its clear (the command
\* 'clear' or the button Clear Chat) gives the engine no turn from before the
\* clear.
C7_ClearForgetsEarlierTurns ==
  \A s \in Sessions :
    (clearMark[s] >= 0 /\ sinceClear[s] = 1 /\ lastCaller = s) =>
      \A i \in 1..Len(engineSaw) : engineSaw[i].content \notin TextsBeforeClear(s)

\* C8: a run never makes more than 10 Thinking/ToolCall cycles; after the
\* 10th the engine gets no further turn and the run is Aborted; and chat then
\* returns a non-empty string.
C8_StepCeiling ==
  /\ iterations <= 10
  /\ (loopState = "Thinking" /\ iterations = 10) =>
       /\ ENABLED Abort
       /\ ~ENABLED (ThinkRequestsTool \/ ThinkAnswers \/ ThinkFails)
  /\ (loopState = "Aborted" /\ ncalls = runs) =>
       /\ ret.kind = "return"
       /\ IsNonEmptyString(ret.val)
       /\ engineDid = Returns(RespDict(Str(StoppedText)))

\* ten tool calls in time, the run Aborted by the step ceiling, chat returned
C8_Witness ==
  /\ loopState = "Aborted"
  /\ iterations = 10
  /\ elapsed < MaxExecutionTime
  /\ ncalls = runs
  /\ ret.val = Str(StoppedText)

\* C9: every run that has started reaches Done or Aborted, however many tool
\* calls the engine requests; a step in progress is never cut short by the
\* clock: the run is Aborted only from Thinking, between two steps.
C9_RunTerminates ==
  /\ (loopState = "Thinking") ~> (loopState \in {"Done", "Aborted"})
  /\ [][(loopState # "Aborted" /\ loopState' = "Aborted") => loopState = "Thinking"]_vars
  /\ [][loopState = "ToolCall" => loopState' = "Thinking"]_vars

\* a single step overran the time ceiling and the run was Aborted after it
C9_Witness ==
  /\ loopState = "Aborted"
  /\ iterations < MaxIterations
  /\ elapsed >= MaxExecutionTime

\* C10: the history the engine receives in a session holds no turn of another
\* session.
C10_SessionsDoNotShareHistory ==
  lastCaller # 0 =>
    \A i \in 1..Len(engineSaw) :
      engineSaw[i].type = "human" =>
        engineSaw[i].content \in {Str(UserText(lastCaller, k)) : k \in 1..ncalls}

\* C11: a missing credential is found when the process initializes, before any
\* turn is accepted.  In a run whose initialization failed (the command-line
\* program has exited, a browser session has no ready agent, a credential is
\* missing) no chat call has been made and the engine has not been invoked;
\* every turn that was accepted came from an entry point whose initialization
\* had gone through; and chat has never called create_agent() itself.
C11_InitializationBeforeAnyTurn ==
  /\ (creds # AllCreds \/ cliState = "exited")
       => (ncalls = 0 /\ lastCaller = 0 /\ chat_history = <<>> /\ engineSaw = <<>>)
  /\ \A s \in Sessions :
       (mode = "ui" /\ ~agent_ready[s])
         => (lastCaller # s /\ messages[s] = <<>> /\ sinceClear[s] = 0)
  /\ ncalls > 0
       => (IF mode = "cli" THEN cliState = "loop" ELSE agent_ready[lastCaller])
  /\ lazyInits = 0

\* the search credential is missing and a browser session's initialization
\* has failed and been recorded
C11_Witness ==
  /\ "TAVILY_API_KEY" \notin creds
  /\ \E s \in Sessions : last_error[s] # PyNone /\ ~agent_ready[s]

\* the messages chat substitutes for an answer the engine did not give
SubstituteTexts == {MsgApology, MsgNoSuitable, MsgTrouble, MsgNotSure, MsgError, FallbackText}

\* the call's turn resolved: the engine returned and chat passed its answer on
Resolved(beh, r) == beh.kind = "returns" /\ r.val.v \notin SubstituteTexts

\* h2 holds turns of h, unchanged and in order, after dropping some of the
\* oldest, and at most two new turns behind them
OnlyEvictedOrExtended(h, h2) ==
  \E k \in 0..Len(h), j \in 0..2 :
    /\ Len(h2) = Len(h) - k + j
    /\ SubSeq(h2, 1, Len(h) - k) = SubSeq(h, k + 1, Len(h))

\* C12: turns are appended only by a chat call whose turn resolved.  A call
\* whose engine invocation failed, or that returned a substitute message
\* because the engine gave no usable answer, leaves the history as it was;
\* and whatever step is taken, the turns already in the history are kept
\* unchanged unless they are evicted from the front or the history is cleared.
C12_OnlyResolvedTurnsAppended ==
  /\ [][(ncalls' = ncalls + 1 /\ ~Resolved(engineDid', ret'))
          => chat_history' = chat_history]_vars
  /\ [][chat_history' = <<>> \/ OnlyEvictedOrExtended(chat_history, chat_history')]_vars

\* a turn that is a 2-tuple with a known role and a non-empty string content
WellFormed(msg) ==
  /\ Len(msg) = 2
  /\ msg[1] \in {"human", "assistant"}
  /\ IsStr(msg[2])
  /\ msg[2].v # ""

\* the well-formed turns of h, in their order, as messages for the engine
RECURSIVE KeptTurns(_)
KeptTurns(h) ==
  IF h = <<>>
    THEN <<>>
    ELSE (IF WellFormed(Head(h))
            THEN <<[type |-> IF Head(h)[1] = "human" THEN "human" ELSE "ai",
                    content |-> Head(h)[2]]>>
            ELSE <<>>)
         \o KeptTurns(Tail(h))

\* C13: when chat formats the history for the engine it skips every turn
\* that is empty or malformed, whether human or assistant, and keeps all
\* well-formed turns in their order; the formatting never makes the call
\* fail, so a call ends in the outer handler only when it could not build
\* its executor.
C13_FormattingSkipsEmptyAndMalformed ==
  [][ncalls' = ncalls + 1
       => IF ret'.val = Str(MsgError)
            THEN lazyInits' = 1 /\ creds # AllCreds
            ELSE engineSaw' = KeptTurns(chat_history)]_vars

\* the steps of a call that make up its completion: the two appends and the
\* assignment of the truncated list
CompletionSteps == {"append_human", "append_assistant", "store"}

\* C14: the history is changed only by the completion step of chat (the
\* appends and the truncation) and by the explicit clear.  A step that
\* changes it is one of these; in particular it stays as it is when a call
\* formats it, while the engine and the tools run, and when a call ends in
\* the outer error handler.
C14_HistoryChangedOnlyByCompletionOrClear ==
  /\ [][chat_history' # chat_history
          => \/ \E s \in Sessions : pc[s] \in CompletionSteps /\ pc'[s] # pc[s]
             \/ nclears' = nclears + 1 /\ chat_history' = <<>>]_vars
  /\ [][(\E s \in Sessions : pc[s] \in {"idle", "invoke", "failed"} /\ pc'[s] # pc[s])
          => chat_history' = chat_history]_vars

\* one call has ended in the outer handler while the engine runs for another
\* call, and the history holds turns
C14_Witness ==
  /\ chat_history # <<>>
  /\ \E s, t \in Sessions : pc[s] = "failed" /\ pc[t] = "invoke"

\* C15: a clear made while a chat call is under way has no side effect on
\* that call.  The clear leaves the call where it is, with the history it
\* formatted at its start and the output it has; the call returns what its
\* output gives, as it would without the clear; and the clear leaves the
\* history empty: no turn the history held at the clear is in it afterwards.
C15_ClearDuringCallHasNoEffect ==
  /\ [][(nclears' = nclears + 1 /\ \E t \in Sessions : pc[t] # "idle")
          => /\ pc' = pc /\ t_text' = t_text /\ t_saw' = t_saw /\ t_out' = t_out
             /\ chat_history' = <<>>]_vars
  /\ [][\A s \in Sessions :
          (pc[s] = "return" /\ pc'[s] = "idle") => ret' = ReturnValue(t_out[s])]_vars
  /\ [](\A i \in 1..Len(chat_history) : chat_history[i] \notin staleTurns)

\* C16: under sequential use from an empty history, the history always has
\* even length and its roles alternate, a human turn first: every human turn
\* is immediately followed by the assistant reply that was appended with it,
\* also when the history has been truncated to 20.
C16_HistoryAlternates ==
  /\ Len(chat_history) % 2 = 0
  /\ \A i \in 1..Len(chat_history) :
       chat_history[i][1] = (IF i % 2 = 1 THEN "human" ELSE "assistant")
  /\ \A i \in 1..Len(chat_history) :
       i % 2 = 1
         => \E j \in 1..Len(allTurns) :
              /\ j % 2 = 1
              /\ allTurns[j] = chat_history[i]
              /\ allTurns[j + 1] = chat_history[i + 1]

\* eleven exchanges have been appended and the oldest one has been dropped
C16_Witness ==
  /\ Len(allTurns) = 22
  /\ Len(chat_history) = 20
  /\ chat_history[1][1] = "human"
  /\ chat_history[20][1] = "assistant"

\* the history h followed by the two turns of an exchange, cut to its 20 latest
WithExchange(h, text, answer) ==
  LET full == h \o <<<<"human", Str(text)>>, <<"assistant", answer>>>>
  IN  IF Len(full) > 20 THEN SubSeq(full, Len(full) - 19, Len(full)) ELSE full

\* C17: a chat call either appends exactly two turns, ("human", user_input)
\* and then ("assistant", s) with s the very string it returns, or appends
\* nothing.  It appends nothing only when its output is 'No response
\* generated' or when it ended in the outer error handler; every other
\* answer it returns, the fallback text included, is in the history.
C17_ReturnedAnswerIsRecorded ==
  [][ncalls' = ncalls + 1
       => \/ /\ chat_history' = chat_history
             /\ \/ ret'.val = Str(MsgNoResponse)
                \/ ret'.val = Str(MsgError) /\ lazyInits' = 1 /\ creds # AllCreds
          \/ /\ ret'.val # Str(MsgNoResponse)
             /\ \E text \in ApiTexts(1, ncalls') :
                  chat_history' = WithExchange(chat_history, text, ret'.val)]_vars

\* the engine failed, the call returned the fallback text, and the last turn
\* of the truncated history is that text
C17_Witness ==
  /\ mode = "api"
  /\ engineDid.kind = "throws"
  /\ ret.val = Str(FallbackText)
  /\ Len(chat_history) = 20
  /\ chat_history[20] = <<"assistant", Str(FallbackText)>>
  /\ ncalls = PrefillExchanges + 2

\* the assistant contents that answer a human turn with this text
RepliesTo(text) ==
  {Str("re:" \o text)}
    \cup {Str(AnswerText(k)) : k \in {n \in 1..PrefillExchanges : UserText(1, n) = text}}

\* every human turn that has a successor is followed by its own reply
ExchangesTogether ==
  \A i \in 1..(Len(chat_history) - 1) :
    chat_history[i][1] = "human"
      => /\ chat_history[i + 1][1] = "assistant"
         /\ chat_history[i + 1][2] \in RepliesTo(chat_history[i][2].v)

\* the history is the tail of all that was appended: nothing appended later
\* than a turn it still holds is missing
NothingLost ==
  /\ Len(chat_history) <= Len(allTurns)
  /\ chat_history = SubSeq(allTurns, Len(allTurns) - Len(chat_history) + 1, Len(allTurns))

\* no call is under way and the history holds at most 20 turns
BoundWhenQuiet == (\A s \in Sessions : pc[s] = "idle") => Len(chat_history) <= 20

\* C18: when two chat calls of the Streamlit app run at the same time on the
\* process-wide history, each exchange is still recorded as a whole: no
\* other call's turn comes between the two turns of an exchange, no recorded
\* exchange is lost when the truncation rebinds the list, and the history
\* holds at most 20 turns once both calls have finished.
C18_ConcurrentExchangesAtomic ==
  mode = "ui" => (ExchangesTogether /\ NothingLost /\ BoundWhenQuiet)

====
